---- MODULE Spec2Model ----
(***************************************************************************)
(* Tool handlers of app/backend/ragtools.py: find_destination,             *)
(* get_destination_info, search and report_grounding.                      *)
(*                                                                         *)
(* Text is modelled as a sequence of one-character strings, so that the    *)
(* filter expression, the result blocks and the citation keys are built    *)
(* and inspected character by character, as the code builds them.          *)
(* A Python value that may be None (or a key that may be absent from the   *)
(* argument dictionary) is None == <<>> or Some(v) == <<v>>.               *)
(***************************************************************************)
EXTENDS Integers, Sequences, FiniteSets, TLC

VARIABLES
    FlightDuration,               \* dbo.FlightDuration rows, in the order the store returns them
    FlightPrice,                  \* dbo.FlightPrice rows, in the order the store returns them
    tool,                         \* name of the invoked tool
    pc,                           \* position of the invocation
    args,                         \* the argument dictionary of the invocation
    error,                        \* the exception that ended the invocation, if any
    source, duration, price, categories, content,      \* locals of _find_destination_tool
    conn,                         \* the pyodbc connection: "none", "open", "closed"
    destinations_by_duration, destinations_by_price,
    intersection_of_destinations, filter_string,
    search_call,                  \* request handed to search_client.search, awaiting its answer
    returned_hits,                \* the hits search_client.search answered with
    search_results,               \* the part of the answer the async for has not consumed yet
    result,                       \* the text accumulated by the async for loop
    sources,                      \* the validated list of _report_grounding_tool
    tool_result,                  \* the ToolResult returned
    tools,                        \* rtmt.tools: the names the relay can dispatch
    suspended                     \* the frame of the invocation that is not running, if any

storeVars == <<FlightDuration, FlightPrice>>
hostVars == <<tools, suspended>>
localVars == <<source, duration, price, categories, content>>
queryVars == <<destinations_by_duration, destinations_by_price>>
filterVars == <<intersection_of_destinations, filter_string>>
searchVars == <<search_call, returned_hits, search_results, result>>
vars == <<FlightDuration, FlightPrice, tool, pc, args, error,
          source, duration, price, categories, content, conn,
          destinations_by_duration, destinations_by_price,
          intersection_of_destinations, filter_string,
          search_call, returned_hits, search_results, result, sources, tool_result,
          tools, suspended>>

----------------------------------------------------------------------------
(* Bounds of the model *)

MaxRows == 2          \* rows of dbo.FlightPrice
MaxHits == 2          \* hits in one answer of the search collaborator
MaxSources == 2       \* claimed sources in one report_grounding call
MaxKeyLen == 2        \* characters of a generated citation key

----------------------------------------------------------------------------
(* Values *)

None == <<>>
Some(v) == <<v>>

Range(s) == {s[i] : i \in 1..Len(s)}
Min(a, b) == IF a <= b THEN a ELSE b

\* all sequences over S of length at most n
SeqsUpTo(S, n) == UNION {[1..k -> S] : k \in 0..n}
\* the lists without repetition over S
DistinctSeqs(S) == {s \in SeqsUpTo(S, Cardinality(S)) : Cardinality(Range(s)) = Len(s)}
\* every order in which the elements of S can be listed
ListsOfSet(S) == {s \in [1..Cardinality(S) -> S] : Range(s) = S}

RECURSIVE Concat(_)
Concat(ss) == IF ss = <<>> THEN <<>> ELSE Head(ss) \o Concat(Tail(ss))

\* sep.join(parts)
RECURSIVE Join(_, _)
Join(sep, parts) ==
    IF parts = <<>> THEN <<>>
    ELSE IF Len(parts) = 1 THEN parts[1]
    ELSE parts[1] \o sep \o Join(sep, Tail(parts))

\* sub occurs in s
Contains(s, sub) ==
    \E i \in 1..(Len(s) - Len(sub) + 1) : SubSeq(s, i, i + Len(sub) - 1) = sub
\* number of places where sub occurs in s
Occurrences(s, sub) ==
    Cardinality({i \in 1..(Len(s) - Len(sub) + 1) : SubSeq(s, i, i + Len(sub) - 1) = sub})

LIS == <<"L","I","S">>
BCN == <<"B","C","N">>
MAD == <<"M","A","D">>
Praia == <<"P","r","a","i","a">>
Neve == <<"N","e","v","e">>
Sol == <<"s","o","l">>

Destinations == {BCN, MAD}
CategoryTags == {Praia, Neve}
Hours == 0..2                 \* values of max_flight_duration
Amounts == 0..2               \* values of max_price

\* The store. FlightDuration holds at most one row per route; FlightPrice may
\* hold several rows for one route (one per date range).
DurationRows == <<[Source |-> LIS, Destination |-> BCN, Duration |-> 1],
                  [Source |-> LIS, Destination |-> MAD, Duration |-> 2]>>
PriceRows == {[Source |-> LIS, Destination |-> MAD, Price |-> 1,
               StartDate |-> 1, EndDate |-> 1],
              [Source |-> LIS, Destination |-> BCN, Price |-> 2,
               StartDate |-> 1, EndDate |-> 2]}
TripDates == 1..2             \* values of trip_date, as day numbers

RECURSIVE SubTables(_)
SubTables(rows) ==
    IF rows = <<>> THEN {<<>>}
    ELSE LET rest == SubTables(Tail(rows))
         IN  rest \cup {<<Head(rows)>> \o t : t \in rest}

FlightDurationTables == SubTables(DurationRows)
FlightPriceTables == SeqsUpTo(PriceRows, MaxRows)

\* The argument dictionaries the relay may hand to find_destination
FindArgs ==
    [current_location : {None, Some(LIS)},
     max_flight_duration : {None} \cup {Some(h) : h \in Hours},
     max_price : {None} \cup {Some(p) : p \in Amounts},
     categories : {None} \cup {Some(c) : c \in DistinctSeqs(CategoryTags)},
     content : {None, Some(<<>>), Some(Sol)}]

----------------------------------------------------------------------------
(* Text literals of the handlers *)

S_IataEq == <<"i","a","t","a","_","c","o","d","e"," ","e","q"," ","'">>
S_Quote == <<"'">>
S_Or == <<" ","o","r"," ">>
S_And == <<" ","a","n","d"," ">>
S_CatAny == <<"c","a","t","e","g","o","r","i","e","s","/","a","n","y","(","c",":"," ","c"," ","e","q"," ","'">>
S_QuoteClose == <<"'",")">>
S_Open == <<"(">>
S_Close == <<")">>
S_CloseAndOpen == <<")"," ","a","n","d"," ","(">>
S_Travel == <<"t","r","a","v","e","l">>


\* The argument dictionaries the relay may hand to get_flight_info
FlightArgs ==
    [current_location : {None, Some(LIS)},
     destination : {None, Some(BCN), Some(MAD)},
     trip_date : {None} \cup {Some(d) : d \in TripDates}]

----------------------------------------------------------------------------
(* Constraint resolver *)

json_dumps(list) == [json |-> list]
json_loads(text) == text.json

RECURSIVE Select(_, _, _)
\* rows of table with Source = src and value(row) <= bound, in table order
Select(table, src, bound) ==
    IF table = <<>> THEN <<>>
    ELSE LET r == Head(table)
             v == IF "Duration" \in DOMAIN r THEN r.Duration ELSE r.Price
         IN  (IF r.Source = src /\ v <= bound THEN <<r>> ELSE <<>>)
             \o Select(Tail(table), src, bound)

get_destinations_by_duration(src, d, table) ==
    LET rows == Select(table, src, d)
    IN  IF rows # <<>>
        THEN json_dumps([i \in 1..Len(rows) |-> rows[i].Destination])
        ELSE json_dumps(<<>>)

get_destinations_by_price(src, p, table) ==
    LET rows == Select(table, src, p)
    IN  IF rows # <<>>
        THEN json_dumps([i \in 1..Len(rows) |-> rows[i].Destination])
        ELSE json_dumps(<<>>)

\* Python truth value of an optional number: None and 0 are false
Truthy(opt) == opt # None /\ opt[1] # 0

----------------------------------------------------------------------------
(* Eligibility combiner and filter synthesizer *)

\* The lists intersection_of_destinations may be bound to: list(set & set)
\* lists the common codes in an order the code does not control.
Combine(D, P) ==
    IF D # <<>> /\ P # <<>> THEN ListsOfSet(Range(D) \cap Range(P))
    ELSE IF D # <<>> THEN {D}
    ELSE {P}

DestinationPredicate(d) == S_IataEq \o d \o S_Quote
CategoryPredicate(c) == S_CatAny \o c \o S_QuoteClose

\* Variant of DestinationFilter: an empty list yields a predicate on the empty
\* code, a clause no record satisfies, instead of no clause.
DestinationFilter_AlwaysFalse(dests) ==
    IF dests # <<>>
    THEN Join(S_Or, [i \in 1..Len(dests) |-> DestinationPredicate(dests[i])])
    ELSE DestinationPredicate(<<>>)

\* Variant of DestinationFilter: the predicates are joined with " and ".
DestinationFilter_AndJoin(dests) ==
    IF dests # <<>>
    THEN Join(S_And, [i \in 1..Len(dests) |-> DestinationPredicate(dests[i])])
    ELSE <<>>

\* Lines 249-252
DestinationFilter(dests) ==
    IF dests # <<>>
    THEN Join(S_Or, [i \in 1..Len(dests) |-> DestinationPredicate(dests[i])])
    ELSE <<>>

\* Lines 256-257
CategoryFilter(cats) ==
    Join(S_And, [i \in 1..Len(cats) |-> CategoryPredicate(cats[i])])

\* Variant of JoinGroups: the destination group is not parenthesized.
JoinGroups_Unparenthesized(dest_filter, category_filter) ==
    dest_filter \o S_And \o S_Open \o category_filter \o S_Close

\* Line 259
JoinGroups(dest_filter, category_filter) ==
    S_Open \o dest_filter \o S_CloseAndOpen \o category_filter \o S_Close

\* Lines 240-261
SynthesizeFilter(dests, cats) ==
    LET fs == DestinationFilter(dests)
    IN  IF cats # <<>>
        THEN IF fs # <<>> THEN JoinGroups(fs, CategoryFilter(cats))
             ELSE CategoryFilter(cats)
        ELSE fs

----------------------------------------------------------------------------
(* Retrieval executor *)

S_BracketOpen == <<"[">>
S_KB == <<" ","@","K","B","]",":"," ","D","e","s","t","i","n","a","t","i","o","n",":"," ">>
S_Country == <<"C","o","u","n","t","r","y",":"," ">>
S_Categories == <<"C","a","t","e","g","o","r","i","e","s",":"," ">>
S_KeyEnd == <<"]",":"," ">>
S_NL == <<"\n">>
S_Dashes == <<"-","-","-","-","-","\n">>
S_ListOpen == <<"[">>
S_ListClose == <<"]">>
S_CommaSp == <<","," ">>

\* Records of the destination index and of the text index
DestinationDocs ==
    {[destination |-> <<"R","i","o">>, destination_pt |-> <<"r">>,
      country |-> <<"B","R">>, country_pt |-> <<"b">>, categories |-> <<Praia>>],
     [destination |-> <<"O","s","l","o">>, destination_pt |-> <<"o">>,
      country |-> <<"N","O">>, country_pt |-> <<"n">>, categories |-> <<Neve, Praia>>]}
ChunkDocs ==
    {[chunk_id |-> <<"k","_","1">>, title |-> <<"t">>, chunk |-> <<"u","m">>],
     [chunk_id |-> <<"k","_","2">>, title |-> <<"t">>, chunk |-> <<"d","o","i","s">>]}

QueryArgs == [query : {None, Some(Sol)}]

\* The answers the search collaborator may give to a call of tool t asking for top hits
HitLists(t, top) ==
    SeqsUpTo(IF t = "search" THEN ChunkDocs ELSE DestinationDocs, Min(MaxHits, top))

\* str() of a list of letter-only strings, as the f-string renders item['categories']
ReprList(list) ==
    S_ListOpen
    \o Join(S_CommaSp, [i \in 1..Len(list) |-> S_Quote \o list[i] \o S_Quote])
    \o S_ListClose

\* The bracketed source name that opens a block
ItemKey(t, item) ==
    IF t = "search" THEN item.chunk_id
    ELSE item.destination \o <<" ","@","K","B">>

\* item_string (lines 282, 308) and the block of line 401
ItemString(t, item) ==
    IF t = "search"
    THEN S_BracketOpen \o item.chunk_id \o S_KeyEnd \o item.chunk \o S_NL \o S_Dashes
    ELSE S_BracketOpen \o item.destination \o S_KB \o item.destination \o S_NL
         \o item.destination_pt \o S_NL
         \o S_Country \o item.country \o S_NL
         \o item.country_pt \o S_NL
         \o S_Categories \o ReprList(item.categories) \o S_NL
         \o S_Dashes

\* Variant of Accumulate: the block is put in front of the text.
Accumulate_Prepend(text, item_string) == item_string \o text

\* result += item_string
Accumulate(text, item_string) == text \o item_string

----------------------------------------------------------------------------
(* find_destination *)

\* No tool has been invoked yet
InitFrame ==
    /\ tool = "none" /\ pc = "idle" /\ args = None /\ error = "none"
    /\ source = None /\ duration = None /\ price = None
    /\ categories = None /\ content = None
    /\ conn = "none"
    /\ destinations_by_duration = <<>> /\ destinations_by_price = <<>>
    /\ intersection_of_destinations = <<>> /\ filter_string = <<>>
    /\ search_call = None /\ returned_hits = <<>> /\ search_results = <<>>
    /\ result = <<>> /\ sources = <<>> /\ tool_result = None

\* Lines 445-454: the five names attach_rag_tools registers
attach_rag_tools ==
    {"find_destination", "get_destination_info", "get_flight_info", "search",
     "report_grounding"}

\* The relay after attach_rag_tools, with one invocation at a time
InitHost == tools = attach_rag_tools /\ suspended = None

Init ==
    /\ FlightDuration \in FlightDurationTables
    /\ FlightPrice \in FlightPriceTables
    /\ InitFrame
    /\ InitHost

\* The invocation ends with exception e
Raise(e) == pc' = "failed" /\ error' = e

\* Variant of FindDestination: the origin is read with a default instead of
\* args['current_location'], so a missing origin does not end the invocation.
FindDestination_OriginOptional(a) ==
    /\ pc = "idle"
    /\ tool' = "find_destination" /\ args' = Some(a)
    /\ \/ /\ a.categories = None
          /\ Raise("UnboundLocalError")
          /\ source' = a.current_location
          /\ duration' = a.max_flight_duration
          /\ price' = a.max_price
          /\ UNCHANGED <<categories, content>>
       \/ /\ a.categories # None
          /\ source' = a.current_location
          /\ duration' = a.max_flight_duration
          /\ price' = a.max_price
          /\ categories' = a.categories
          /\ content' = a.content
          /\ pc' = "connect"
          /\ UNCHANGED error
    /\ UNCHANGED <<storeVars, hostVars, conn, queryVars, filterVars, searchVars,
                   sources, tool_result>>

\* Lines 192-219: the arguments are read
FindDestination(a) ==
    /\ pc = "idle"
    /\ tool' = "find_destination" /\ args' = Some(a)
    /\ \/ /\ a.current_location = None
          /\ Raise("KeyError")
          /\ UNCHANGED localVars
       \/ /\ a.current_location # None /\ a.categories = None
          /\ Raise("UnboundLocalError")
          /\ source' = a.current_location
          /\ duration' = a.max_flight_duration
          /\ price' = a.max_price
          /\ UNCHANGED <<categories, content>>
       \/ /\ a.current_location # None /\ a.categories # None
          /\ source' = a.current_location
          /\ duration' = a.max_flight_duration
          /\ price' = a.max_price
          /\ categories' = a.categories
          /\ content' = a.content
          /\ pc' = "connect"
          /\ UNCHANGED error
    /\ UNCHANGED <<storeVars, hostVars, conn, queryVars, filterVars, searchVars,
                   sources, tool_result>>

\* Line 222: pyodbc.connect, which raises when the store is unreachable
Connect ==
    /\ pc = "connect"
    /\ \/ conn' = "open" /\ pc' = "query_duration" /\ UNCHANGED error
       \/ Raise("StoreError") /\ UNCHANGED conn
    /\ UNCHANGED <<storeVars, hostVars, tool, args, localVars, queryVars, filterVars,
                   searchVars, sources, tool_result>>

\* Lines 225-228
QueryDuration ==
    /\ pc = "query_duration"
    /\ \/ /\ Truthy(duration)
          /\ destinations_by_duration' =
                json_loads(get_destinations_by_duration(source[1], duration[1], FlightDuration))
          /\ pc' = "query_price" /\ UNCHANGED error
       \/ /\ Truthy(duration)
          /\ Raise("StoreError") /\ UNCHANGED destinations_by_duration
       \/ /\ ~Truthy(duration)
          /\ pc' = "query_price"
          /\ UNCHANGED <<error, destinations_by_duration>>
    /\ UNCHANGED <<storeVars, hostVars, tool, args, localVars, conn, destinations_by_price,
                   filterVars, searchVars, sources, tool_result>>

\* Lines 231-234
QueryPrice ==
    /\ pc = "query_price"
    /\ \/ /\ Truthy(price)
          /\ destinations_by_price' =
                json_loads(get_destinations_by_price(source[1], price[1], FlightPrice))
          /\ pc' = "close" /\ UNCHANGED error
       \/ /\ Truthy(price)
          /\ Raise("StoreError") /\ UNCHANGED destinations_by_price
       \/ /\ ~Truthy(price)
          /\ pc' = "close"
          /\ UNCHANGED <<error, destinations_by_price>>
    /\ UNCHANGED <<storeVars, hostVars, tool, args, localVars, conn, destinations_by_duration,
                   filterVars, searchVars, sources, tool_result>>

\* Lines 237-278: the connection is closed, the filter is built and the search
\* is issued; the handler is suspended at the await.
CloseAndSearch ==
    /\ pc = "close"
    /\ conn' = "closed"
    /\ \E dests \in Combine(destinations_by_duration, destinations_by_price) :
          /\ intersection_of_destinations' = dests
          /\ filter_string' = SynthesizeFilter(dests, categories[1])
    /\ content' = IF content = None THEN Some(S_Travel) ELSE content
    /\ search_call' = Some([search_text |-> content'[1], vector_text |-> content'[1],
                            k_nearest_neighbors |-> 50, top |-> 5,
                            filter |-> Some(filter_string')])
    /\ pc' = "await_search"
    /\ UNCHANGED <<storeVars, hostVars, tool, args, error, source, duration, price, categories,
                   queryVars, returned_hits, search_results, result, sources, tool_result>>

\* Lines 293-304: get_destination_info reads the query and issues the search
GetDestinationInfo(a) ==
    /\ pc = "idle"
    /\ tool' = "get_destination_info" /\ args' = Some(a)
    /\ \/ /\ a.query = None
          /\ Raise("KeyError")
          /\ UNCHANGED search_call
       \/ /\ a.query # None
          /\ search_call' = Some([search_text |-> a.query[1], vector_text |-> a.query[1],
                                  k_nearest_neighbors |-> 3, top |-> 3, filter |-> None])
          /\ pc' = "await_search"
          /\ UNCHANGED error
    /\ UNCHANGED <<storeVars, hostVars, localVars, conn, queryVars, filterVars,
                   returned_hits, search_results, result, sources, tool_result>>

\* Lines 388-397: search reads the query and issues the search
SearchTool(a) ==
    /\ pc = "idle"
    /\ tool' = "search" /\ args' = Some(a)
    /\ \/ /\ a.query = None
          /\ Raise("KeyError")
          /\ UNCHANGED search_call
       \/ /\ a.query # None
          /\ search_call' = Some([search_text |-> a.query[1], vector_text |-> a.query[1],
                                  k_nearest_neighbors |-> 50, top |-> 5, filter |-> None])
          /\ pc' = "await_search"
          /\ UNCHANGED error
    /\ UNCHANGED <<storeVars, hostVars, localVars, conn, queryVars, filterVars,
                   returned_hits, search_results, result, sources, tool_result>>

\* cursor.fetchone(): no row, or one of the selected rows (the queries have no
\* ORDER BY, so which one is up to the store)
FetchOne(rows) == IF rows = {} THEN {None} ELSE {Some(r) : r \in rows}

\* Lines 321-339: the values get_flight_duration may return
get_flight_duration(src, dst, table) ==
    {IF row # None THEN row[1].Duration ELSE 0 :
        row \in FetchOne({r \in Range(table) : r.Source = src /\ r.Destination = dst})}

\* Lines 342-360: the values get_flight_price may return
get_flight_price(src, dst, trip_date, table) ==
    {IF row # None THEN row[1].Price ELSE 0 :
        row \in FetchOne({r \in Range(table) :
                             /\ r.Source = src /\ r.Destination = dst
                             /\ r.StartDate <= trip_date /\ r.EndDate >= trip_date})}

\* Line 364: get_flight_info reads its three arguments for the log line
GetFlightInfo(a) ==
    /\ pc = "idle"
    /\ tool' = "get_flight_info" /\ args' = Some(a)
    /\ IF a.current_location = None \/ a.destination = None \/ a.trip_date = None
       THEN Raise("KeyError")
       ELSE pc' = "flight_connect" /\ UNCHANGED error
    /\ UNCHANGED <<storeVars, hostVars, localVars, conn, queryVars, filterVars,
                   searchVars, sources, tool_result>>

\* Line 367: pyodbc.connect
FlightConnect ==
    /\ pc = "flight_connect"
    /\ \/ conn' = "open" /\ pc' = "flight_duration" /\ UNCHANGED error
       \/ Raise("StoreError") /\ UNCHANGED conn
    /\ UNCHANGED <<storeVars, hostVars, tool, args, localVars, queryVars, filterVars,
                   searchVars, sources, tool_result>>

\* Line 369
LookupDuration ==
    /\ pc = "flight_duration"
    /\ \/ /\ \E d \in get_flight_duration(args[1].current_location[1],
                                           args[1].destination[1], FlightDuration) :
                duration' = Some(d)
          /\ pc' = "flight_price" /\ UNCHANGED error
       \/ Raise("StoreError") /\ UNCHANGED duration
    /\ UNCHANGED <<storeVars, hostVars, tool, args, source, price, categories, content, conn,
                   queryVars, filterVars, searchVars, sources, tool_result>>

\* Line 370
LookupPrice ==
    /\ pc = "flight_price"
    /\ \/ /\ \E p \in get_flight_price(args[1].current_location[1],
                                        args[1].destination[1],
                                        args[1].trip_date[1], FlightPrice) :
                price' = Some(p)
          /\ pc' = "flight_close" /\ UNCHANGED error
       \/ Raise("StoreError") /\ UNCHANGED price
    /\ UNCHANGED <<storeVars, hostVars, tool, args, source, duration, categories, content, conn,
                   queryVars, filterVars, searchVars, sources, tool_result>>

\* Lines 372-385: the result is built, the connection is closed, the result
\* is returned
CloseAndReturn ==
    /\ pc = "flight_close"
    /\ conn' = "closed"
    /\ tool_result' = Some([value |-> [source |-> args[1].current_location[1],
                                       destination |-> args[1].destination[1],
                                       price |-> price[1],
                                       duration |-> duration[1],
                                       trip_date |-> args[1].trip_date[1]],
                            direction |-> "TO_SERVER"])
    /\ pc' = "done"
    /\ UNCHANGED <<storeVars, hostVars, tool, args, error, localVars, queryVars, filterVars,
                   searchVars, sources>>

\* The search collaborator answers the awaited call with at most `top` hits, or
\* the call raises. The argument dictionary and the locals of find_destination
\* are not read after the search is issued (line 278, 304, 397); they are
\* dropped here, so the formatting loop is explored once per answer.
SearchReturn ==
    /\ pc = "await_search"
    /\ \/ \E hits \in HitLists(tool, search_call[1].top) :
             /\ returned_hits' = hits
             /\ search_results' = hits
             /\ result' = <<>>
             /\ pc' = "iterate"
             /\ UNCHANGED error
       \/ /\ Raise("SearchError")
          /\ UNCHANGED <<returned_hits, search_results, result>>
    /\ search_call' = None
    /\ args' = None
    /\ source' = None /\ duration' = None /\ price' = None
    /\ categories' = None /\ content' = None
    /\ destinations_by_duration' = <<>> /\ destinations_by_price' = <<>>
    /\ intersection_of_destinations' = <<>> /\ filter_string' = <<>>
    /\ UNCHANGED <<storeVars, hostVars, tool, conn, sources, tool_result>>

\* One turn of the async for loop (lines 281-284, 307-310, 400-401)
FormatItem ==
    /\ pc = "iterate"
    /\ search_results # <<>>
    /\ result' = Accumulate(result, ItemString(tool, Head(search_results)))
    /\ search_results' = Tail(search_results)
    /\ UNCHANGED <<storeVars, hostVars, tool, pc, args, error, localVars, conn, queryVars,
                   filterVars, search_call, returned_hits, sources, tool_result>>

\* Lines 290, 318, 405: the loop is over and the text is returned
ReturnResult ==
    /\ pc = "iterate"
    /\ search_results = <<>>
    /\ tool_result' = Some([value |-> result, direction |-> "TO_SERVER"])
    /\ pc' = "done"
    /\ UNCHANGED <<storeVars, hostVars, tool, args, error, localVars, conn, queryVars,
                   filterVars, searchVars, sources>>

Next ==
    \/ pc = "idle" /\ \E a \in FindArgs : FindDestination(a)
    \/ Connect
    \/ QueryDuration
    \/ QueryPrice
    \/ CloseAndSearch
    \/ pc = "idle" /\ \E a \in QueryArgs : GetDestinationInfo(a)
    \/ pc = "idle" /\ \E a \in QueryArgs : SearchTool(a)
    \/ SearchReturn
    \/ FormatItem
    \/ ReturnResult
    \/ pc = "idle" /\ \E a \in FlightArgs : GetFlightInfo(a)
    \/ FlightConnect
    \/ LookupDuration
    \/ LookupPrice
    \/ CloseAndReturn

Spec == Init /\ [][Next]_vars

----------------------------------------------------------------------------
(* Grounding verifier *)

Lower == {"a","b","c","d","e","f","g","h","i","j","k","l","m","n","o","p","q","r","s","t","u","v","w","x","y","z"}
Upper == {"A","B","C","D","E","F","G","H","I","J","K","L","M","N","O","P","Q","R","S","T","U","V","W","X","Y","Z"}
Digits == {"0","1","2","3","4","5","6","7","8","9"}

\* Variant of KeyChars: the class also admits '@'.
KeyChars_WithAt == Lower \cup Upper \cup Digits \cup {"_", "=", "-", "@"}

\* The character class [a-zA-Z0-9_=\-] of KEY_PATTERN
KeyChars == Lower \cup Upper \cup Digits \cup {"_", "=", "-"}

\* KEY_PATTERN.match(s) is not None, for ^[a-zA-Z0-9_=\-]+$ : one or more
\* characters of the class from the start, up to a place where $ matches. In
\* Python, without re.MULTILINE, $ matches at the end of the string and also
\* just before a newline that is the last character of the string.
KEY_PATTERN_match(s) ==
    \E n \in 1..Len(s) :
        /\ \A i \in 1..n : s[i] \in KeyChars
        /\ \/ n = Len(s)
           \/ n = Len(s) - 1 /\ s[Len(s)] = "\n"

ParisKB == <<"P","a","r","i","s","@","K","B">>
DropKey == <<"'",";"," ","D","R","O","P","-","-">>
KeyAlphabet == {"a", "@", "\n"}

\* The strings a client may claim as sources
ClaimedKeys ==
    SeqsUpTo(KeyAlphabet, MaxKeyLen) \cup {ParisKB, DropKey, <<"k","_","1">>}

GroundingArgs ==
    [sources : {None} \cup {Some(l) : l \in SeqsUpTo(ClaimedKeys, MaxSources)}]

\* Line 417: the claimed sources that match KEY_PATTERN, in the order claimed
ValidatedSources(claimed) == SelectSeq(claimed, KEY_PATTERN_match)

\* Lines 411-442. The handler awaits nothing: the search calls of lines 424-430
\* and 437-439 are inside string literals and are not executed.
ReportGrounding(a) ==
    /\ pc = "idle"
    /\ tool' = "report_grounding" /\ args' = Some(a)
    /\ \/ /\ a.sources = None
          /\ Raise("KeyError")
          /\ UNCHANGED <<sources, tool_result>>
       \/ /\ a.sources # None
          /\ sources' = ValidatedSources(a.sources[1])
          /\ tool_result' = Some([value |-> [sources |-> sources'],
                                  direction |-> "TO_CLIENT"])
          /\ pc' = "done"
          /\ UNCHANGED error
    /\ UNCHANGED <<storeVars, hostVars, localVars, conn, queryVars, filterVars, searchVars>>

InitGrounding ==
    /\ FlightDuration = <<>>
    /\ FlightPrice = <<>>
    /\ InitFrame
    /\ InitHost

NextGrounding == pc = "idle" /\ \E a \in GroundingArgs : ReportGrounding(a)

SpecGrounding == InitGrounding /\ [][NextGrounding]_vars

----------------------------------------------------------------------------
(* find_destination on values that carry a single quote *)

\* A Destination value of the store and a category argument with a quote in it
OHare == <<"O","'","H">>
QuotedTag == <<"x","'",")">>

\* The store: any part of the two FlightDuration rows and of the FlightPrice row
QuotedDurationRows == <<[Source |-> LIS, Destination |-> BCN, Duration |-> 1],
                        [Source |-> LIS, Destination |-> OHare, Duration |-> 1]>>
QuotedPriceRows == <<[Source |-> LIS, Destination |-> OHare, Price |-> 1,
                      StartDate |-> 1, EndDate |-> 2]>>

\* The argument dictionaries: categories is a free list of strings
QuotedArgs ==
    [current_location : {Some(LIS)},
     max_flight_duration : {None, Some(1)},
     max_price : {None, Some(1)},
     categories : {Some(c) : c \in DistinctSeqs({Praia, QuotedTag})},
     content : {None}]

InitQuoted ==
    /\ FlightDuration \in SubTables(QuotedDurationRows)
    /\ FlightPrice \in SubTables(QuotedPriceRows)
    /\ InitFrame
    /\ InitHost

NextQuoted ==
    \/ pc = "idle" /\ \E a \in QuotedArgs : FindDestination(a)
    \/ Connect
    \/ QueryDuration
    \/ QueryPrice
    \/ CloseAndSearch
    \/ SearchReturn
    \/ FormatItem
    \/ ReturnResult

SpecQuoted == InitQuoted /\ [][NextQuoted]_vars

----------------------------------------------------------------------------
(* Two invocations on one event loop *)

\* The frame of the running invocation: its arguments, locals and position
Frame ==
    [tool |-> tool,
     pc |-> pc,
     args |-> args,
     error |-> error,
     source |-> source,
     duration |-> duration,
     price |-> price,
     categories |-> categories,
     content |-> content,
     conn |-> conn,
     destinations_by_duration |-> destinations_by_duration,
     destinations_by_price |-> destinations_by_price,
     intersection_of_destinations |-> intersection_of_destinations,
     filter_string |-> filter_string,
     search_call |-> search_call,
     returned_hits |-> returned_hits,
     search_results |-> search_results,
     result |-> result,
     sources |-> sources,
     tool_result |-> tool_result]

\* The frame of an invocation that has not started
FreshFrame ==
    [tool |-> "none",
     pc |-> "idle",
     args |-> None,
     error |-> "none",
     source |-> None,
     duration |-> None,
     price |-> None,
     categories |-> None,
     content |-> None,
     conn |-> "none",
     destinations_by_duration |-> <<>>,
     destinations_by_price |-> <<>>,
     intersection_of_destinations |-> <<>>,
     filter_string |-> <<>>,
     search_call |-> None,
     returned_hits |-> <<>>,
     search_results |-> <<>>,
     result |-> <<>>,
     sources |-> <<>>,
     tool_result |-> None]

\* Variant of Load: result is one module-level name shared by all invocations,
\* so it is not part of the frame that is restored.
Load_SharedResult(f) ==
    /\ tool' = f.tool
    /\ pc' = f.pc
    /\ args' = f.args
    /\ error' = f.error
    /\ source' = f.source
    /\ duration' = f.duration
    /\ price' = f.price
    /\ categories' = f.categories
    /\ content' = f.content
    /\ conn' = f.conn
    /\ destinations_by_duration' = f.destinations_by_duration
    /\ destinations_by_price' = f.destinations_by_price
    /\ intersection_of_destinations' = f.intersection_of_destinations
    /\ filter_string' = f.filter_string
    /\ search_call' = f.search_call
    /\ returned_hits' = f.returned_hits
    /\ search_results' = f.search_results
    /\ sources' = f.sources
    /\ tool_result' = f.tool_result
    /\ UNCHANGED result

\* The event loop resumes the invocation of frame f: every local of the
\* handler has the value it had when the handler was suspended
Load(f) ==
    /\ tool' = f.tool
    /\ pc' = f.pc
    /\ args' = f.args
    /\ error' = f.error
    /\ source' = f.source
    /\ duration' = f.duration
    /\ price' = f.price
    /\ categories' = f.categories
    /\ content' = f.content
    /\ conn' = f.conn
    /\ destinations_by_duration' = f.destinations_by_duration
    /\ destinations_by_price' = f.destinations_by_price
    /\ intersection_of_destinations' = f.intersection_of_destinations
    /\ filter_string' = f.filter_string
    /\ search_call' = f.search_call
    /\ returned_hits' = f.returned_hits
    /\ search_results' = f.search_results
    /\ result' = f.result
    /\ sources' = f.sources
    /\ tool_result' = f.tool_result

\* The positions where a handler gives control back to the event loop: the
\* awaited search call (lines 269, 296, 390), each turn of the async for
\* (lines 280, 306, 400) and the end of the handler
SwitchPoints == {"await_search", "iterate", "done", "failed"}

\* While the running invocation is suspended or has ended, the relay
\* dispatches a second tool call
Dispatch ==
    /\ pc \in SwitchPoints
    /\ suspended = None
    /\ suspended' = Some(Frame)
    /\ Load(FreshFrame)
    /\ UNCHANGED <<storeVars, tools>>

\* The event loop resumes the other invocation
Resume ==
    /\ pc \in SwitchPoints
    /\ suspended # None
    /\ suspended' = Some(Frame)
    /\ Load(suspended[1])
    /\ UNCHANGED <<storeVars, tools>>

ConcurrentFindArgs ==
    [current_location : {Some(LIS)},
     max_flight_duration : {Some(1), Some(2)},
     max_price : {None},
     categories : {Some(<<>>), Some(<<Praia>>)},
     content : {None}]

ConcurrentQueryArgs == [query : {Some(Sol)}]

InitConcurrent ==
    /\ FlightDuration = DurationRows
    /\ FlightPrice = <<>>
    /\ InitFrame
    /\ InitHost

NextConcurrent ==
    \/ pc = "idle" /\ \E a \in ConcurrentFindArgs : FindDestination(a)
    \/ Connect
    \/ QueryDuration
    \/ QueryPrice
    \/ CloseAndSearch
    \/ pc = "idle" /\ \E a \in ConcurrentQueryArgs : SearchTool(a)
    \/ SearchReturn
    \/ FormatItem
    \/ ReturnResult
    \/ Dispatch
    \/ Resume

SpecConcurrent == InitConcurrent /\ [][NextConcurrent]_vars

----------------------------------------------------------------------------
(* Properties *)

FindAwaitsSearch == tool = "find_destination" /\ pc = "await_search"
GroundingDone == tool = "report_grounding" /\ pc = "done"

\* What the store answers to the range lookups for the arguments of the invocation
ResolvedByDuration ==
    json_loads(get_destinations_by_duration(args[1].current_location[1],
                                            args[1].max_flight_duration[1], FlightDuration))
ResolvedByPrice ==
    json_loads(get_destinations_by_price(args[1].current_location[1],
                                         args[1].max_price[1], FlightPrice))

\* The filter handed to the search collaborator
SentFilter == search_call[1].filter[1]

\* C1: when both max_flight_duration and max_price are supplied the combined
\* eligibility set is the intersection of the two result sets, and when exactly
\* one is supplied it is that constraint's result list verbatim.
C1_CombineIsIntersection ==
    FindAwaitsSearch =>
        LET d == args[1].max_flight_duration
            p == args[1].max_price
        IN  /\ (d # None /\ p # None) =>
                  Range(intersection_of_destinations)
                      = Range(ResolvedByDuration) \cap Range(ResolvedByPrice)
            /\ (d # None /\ p = None) => intersection_of_destinations = ResolvedByDuration
            /\ (d = None /\ p # None) => intersection_of_destinations = ResolvedByPrice

\* The filter restricts the search by destination code
HasDestinationClause(f) == Contains(f, S_IataEq)
\* A record whose iata_code is code passes the destination part of filter f
Admits(f, code) == ~HasDestinationClause(f) \/ Contains(f, DestinationPredicate(code))

\* C2: the filter handed to the search collaborator admits only destination
\* codes that satisfy every supplied numeric constraint (0 included); a supplied
\* constraint never leaves the search unrestricted by destination.
C2_FilterAdmitsOnlyEligible ==
    FindAwaitsSearch =>
        \A c \in Destinations :
            Admits(SentFilter, c) =>
                /\ args[1].max_flight_duration # None => c \in Range(ResolvedByDuration)
                /\ args[1].max_price # None => c \in Range(ResolvedByPrice)

NeitherSupplied == args[1].max_flight_duration = None /\ args[1].max_price = None

\* C3: when neither max_flight_duration nor max_price is supplied, the combined
\* eligibility list is empty and the filter has no destination-code clause: it
\* is the empty filter or the category clause alone.
C3_NoConstraintNoDestinationClause ==
    (FindAwaitsSearch /\ NeitherSupplied) =>
        /\ intersection_of_destinations = <<>>
        /\ ~Contains(SentFilter, <<"i","a","t","a","_","c","o","d","e">>)
        /\ IF categories[1] = <<>> THEN SentFilter = <<>>
           ELSE /\ SentFilter = Join(S_And, [i \in 1..Len(categories[1]) |->
                                    S_CatAny \o categories[1][i] \o S_QuoteClose])
                /\ Occurrences(SentFilter, S_CatAny) = Len(categories[1])

C3_Witness ==
    /\ FindAwaitsSearch /\ NeitherSupplied
    /\ Len(categories[1]) = 2
    /\ SentFilter # <<>>

\* "(" minus ")" among s[i..j]
Depth(s, i, j) ==
    Cardinality({k \in i..j : s[k] = "("}) - Cardinality({k \in i..j : s[k] = ")"})
\* position of the parenthesis that closes the one opened at s[i]; 0 if none
MatchingClose(s, i) ==
    LET closes == {j \in (i+1)..Len(s) :
                      Depth(s, i, j) = 0 /\ \A k \in i..(j-1) : Depth(s, i, k) > 0}
    IN  IF closes = {} THEN 0 ELSE CHOOSE j \in closes : TRUE

OrGroupOf(dests) == Join(S_Or, [i \in 1..Len(dests) |-> S_IataEq \o dests[i] \o S_Quote])
AndGroupOf(cats) == Join(S_And, [i \in 1..Len(cats) |-> S_CatAny \o cats[i] \o S_QuoteClose])

ScenarioFilter ==
    <<"(","i","a","t","a","_","c","o","d","e"," ","e","q"," ","'","M","A","D","'",")",
      " ","a","n","d"," ",
      "(","c","a","t","e","g","o","r","i","e","s","/","a","n","y","(","c",":"," ","c",
      " ","e","q"," ","'","P","r","a","i","a","'",")",")">>

\* C4: when the eligibility list and the categories are both non-empty, the
\* filter is the parenthesized destination OR-group, " and ", the parenthesized
\* category AND-group; eligibility [MAD] with categories [Praia] gives
\* (iata_code eq 'MAD') and (categories/any(c: c eq 'Praia')).
C4_BothGroupsParenthesized ==
    (FindAwaitsSearch /\ intersection_of_destinations # <<>> /\ categories[1] # <<>>) =>
        LET f == SentFilter
            k == MatchingClose(f, 1)
        IN  /\ f[1] = "("
            /\ k > 1
            /\ SubSeq(f, 2, k - 1) = OrGroupOf(intersection_of_destinations)
            /\ SubSeq(f, k + 1, k + 5) = S_And
            /\ f[k + 6] = "("
            /\ MatchingClose(f, k + 6) = Len(f)
            /\ SubSeq(f, k + 7, Len(f) - 1) = AndGroupOf(categories[1])
            /\ (intersection_of_destinations = <<MAD>> /\ categories[1] = <<Praia>>)
                  => f = ScenarioFilter

C4_Witness ==
    /\ FindAwaitsSearch
    /\ destinations_by_duration = <<BCN, MAD>>
    /\ destinations_by_price = <<MAD>>
    /\ intersection_of_destinations = <<MAD>>
    /\ categories[1] = <<Praia>>
    /\ SentFilter = ScenarioFilter

\* C5 as claimed: for a non-empty eligibility list and empty categories the
\* filter is exactly one parenthesized OR-group of destination-code equality
\* predicates, one per member, and has no AND-group.
C5_OneParenthesizedOrGroup ==
    (FindAwaitsSearch /\ intersection_of_destinations # <<>> /\ categories[1] = <<>>) =>
        /\ SentFilter[1] = "("
        /\ MatchingClose(SentFilter, 1) = Len(SentFilter)
        /\ Occurrences(SentFilter, S_IataEq) = Len(intersection_of_destinations)
        /\ ~Contains(SentFilter, S_And)

\* C5 as amended: for a non-empty eligibility list and empty categories the
\* filter is the destination-code equality predicates, one per element of the
\* list in list order, joined by " or ", with no parenthesis and no AND-group.
C5_BareOrGroup ==
    (FindAwaitsSearch /\ intersection_of_destinations # <<>> /\ categories[1] = <<>>) =>
        /\ SentFilter = OrGroupOf(intersection_of_destinations)
        /\ Occurrences(SentFilter, S_IataEq) = Len(intersection_of_destinations)
        /\ Occurrences(SentFilter, S_Or) = Len(intersection_of_destinations) - 1
        /\ ~Contains(SentFilter, S_Open) /\ ~Contains(SentFilter, S_Close)
        /\ ~Contains(SentFilter, S_And)

C5_Witness ==
    /\ FindAwaitsSearch
    /\ Len(intersection_of_destinations) = 2
    /\ intersection_of_destinations[1] # intersection_of_destinations[2]
    /\ categories[1] = <<>>

\* C6: when the arguments hold no 'categories' key the invocation does not fail
\* on it: only a failure of a collaborator may end it.
C6_AbsentCategoriesProceeds ==
    (tool = "find_destination" /\ args # None
        /\ args[1].current_location # None /\ args[1].categories = None) =>
        (pc = "failed" => error \in {"StoreError", "SearchError"})

\* C7: a claimed source that is empty or holds a character outside letters,
\* digits, '_', '=' and '-' (a trailing newline included) is not among the
\* sources report_grounding returns.
C7_AllowListExcludes ==
    GroundingDone =>
        \A i \in 1..Len(args[1].sources[1]) :
            LET s == args[1].sources[1][i]
            IN  (s = <<>> \/ \E j \in 1..Len(s) : s[j] \notin KeyChars)
                    => s \notin Range(tool_result[1].value.sources)

ScenarioClaimed == GroundingDone /\ args[1].sources[1] = <<ParisKB, DropKey>>

\* C8 as claimed: for the claimed sources ["Paris@KB", "'; DROP--"] exactly
\* "Paris@KB" is returned.
C8_ScenarioKeepsParis ==
    ScenarioClaimed => Range(tool_result[1].value.sources) = {ParisKB}

\* C8 as amended: for the claimed sources ["Paris@KB", "'; DROP--"] the
\* returned list is empty: both keys are dropped.
C8_ScenarioDropsBoth ==
    ScenarioClaimed => tool_result[1].value.sources = <<>>

C8_Witness == ScenarioClaimed /\ tool_result[1].direction = "TO_CLIENT"

\* C9: every key report_grounding returns is well-formed and names a record of
\* the search index.
C9_ReturnedKeysIndexed ==
    GroundingDone =>
        \A k \in Range(tool_result[1].value.sources) :
            /\ k # <<>> /\ \A j \in 1..Len(k) : k[j] \in KeyChars
            /\ k \in {d.chunk_id : d \in ChunkDocs}

\* the hits the async for loop has consumed so far
ConsumedHits == SubSeq(returned_hits, 1, Len(returned_hits) - Len(search_results))

\* C10: the text of find_destination, get_destination_info and search is the
\* concatenation of one block per hit, in the order of the collaborator's
\* answer, each block opening with the hit's bracketed key and closing with
\* the '-----' line.
C10_OneBlockPerHitInOrder ==
    (tool \in {"find_destination", "get_destination_info", "search"}
        /\ pc \in {"iterate", "done"}) =>
        LET blocks == [i \in 1..Len(ConsumedHits) |-> ItemString(tool, ConsumedHits[i])]
        IN  /\ result = Concat(blocks)
            /\ \A i \in 1..Len(blocks) :
                  LET key == ItemKey(tool, ConsumedHits[i])
                  IN  /\ SubSeq(blocks[i], 1, Len(key) + 2) = <<"[">> \o key \o <<"]">>
                      /\ SubSeq(blocks[i], Len(blocks[i]) - 6, Len(blocks[i]))
                            = <<"\n","-","-","-","-","-","\n">>
            /\ pc = "done" =>
                  /\ ConsumedHits = returned_hits
                  /\ tool_result[1].value = result

C10_Witness ==
    /\ pc = "done" /\ tool = "find_destination"
    /\ Len(returned_hits) = 2
    /\ returned_hits[1] # returned_hits[2]
    /\ tool_result[1].value # <<>>


\* C11: whatever the 'content' argument is (absent, empty or not), the search
\* text and the vector-query text handed to the search collaborator are not
\* empty, and for an absent content they are the fallback term.
C11_SearchTextNeverEmpty ==
    FindAwaitsSearch =>
        /\ search_call[1].search_text # <<>>
        /\ search_call[1].vector_text # <<>>
        /\ args[1].content = None =>
              /\ search_call[1].search_text = <<"t","r","a","v","e","l">>
              /\ search_call[1].vector_text = <<"t","r","a","v","e","l">>


OriginMissing ==
    tool = "find_destination" /\ args # None /\ args[1].current_location = None

\* C13: a find_destination invocation without current_location fails before
\* any collaborator call: no connection to the store is opened, no search is
\* sent and nothing is returned.
C13_MissingOriginRejectedFirst ==
    OriginMissing =>
        /\ pc = "failed" /\ error = "KeyError"
        /\ conn = "none"
        /\ search_call = None
        /\ tool_result = None

C13_Witness ==
    /\ OriginMissing /\ pc = "failed"
    /\ args[1].max_flight_duration # None /\ args[1].max_flight_duration[1] > 0
    /\ args[1].categories # None


\* C14: when an invocation of find_destination or get_flight_info has ended,
\* normally or with an exception, the store connection it opened is closed.
C14_ConnectionClosedOnExit ==
    (tool \in {"find_destination", "get_flight_info"} /\ pc \in {"done", "failed"})
        => conn # "open"


\* position of the first "]" of a block
FirstClose(block) == CHOOSE i \in 1..Len(block) :
                        block[i] = "]" /\ \A j \in 1..(i - 1) : block[j] # "]"

\* the key a reader of the block finds between the opening "[" and the "]"
BracketedKey(block) == SubSeq(block, 2, FirstClose(block) - 1)

\* the keys surfaced by the blocks emitted so far
EmittedKeys ==
    [i \in 1..Len(ConsumedHits) |-> BracketedKey(ItemString(tool, ConsumedHits[i]))]

\* C16: every bracketed key emitted in a result block of find_destination,
\* get_destination_info or search matches the grounding allow-list, so
\* report_grounding returns it when it is reported back verbatim.
C16_EmittedKeysAccepted ==
    (tool \in {"find_destination", "get_destination_info", "search"}
        /\ pc \in {"iterate", "done"}) =>
            /\ \A i \in 1..Len(EmittedKeys) : KEY_PATTERN_match(EmittedKeys[i])
            /\ ValidatedSources(EmittedKeys) = EmittedKeys


\* The characters of codes and tags that cannot end a quoted literal
SafeChars == Lower \cup Upper \cup Digits

Unsafe(v) == \E i \in 1..Len(v) : v[i] \notin SafeChars

\* The values find_destination interpolates into the filter of the invocation
InterpolatedValues ==
    Range(intersection_of_destinations) \cup Range(categories[1])

\* C12: no destination code or category tag with a character outside the safe
\* set appears in the filter handed to the search collaborator, and the quotes
\* of the filter are exactly the two around each interpolated value.
C12_FilterValuesSafe ==
    FindAwaitsSearch =>
        /\ \A v \in InterpolatedValues : Unsafe(v) => ~Contains(SentFilter, v)
        /\ Occurrences(SentFilter, S_Quote) =
              2 * (Len(intersection_of_destinations) + Len(categories[1]))


\* The filters find_destination hands to the search collaborator for the
\* arguments a when it runs alone on the store
AloneFilters(a) ==
    LET D == IF Truthy(a.max_flight_duration)
             THEN json_loads(get_destinations_by_duration(a.current_location[1],
                                a.max_flight_duration[1], FlightDuration))
             ELSE <<>>
        P == IF Truthy(a.max_price)
             THEN json_loads(get_destinations_by_price(a.current_location[1],
                                a.max_price[1], FlightPrice))
             ELSE <<>>
    IN  {SynthesizeFilter(dests, a.categories[1]) : dests \in Combine(D, P)}

\* The text an invocation of frame f builds alone from the hits it has consumed
AloneResult(f) ==
    Concat([i \in 1..(Len(f.returned_hits) - Len(f.search_results)) |->
               ItemString(f.tool, f.returned_hits[i])])

\* Frame f holds what its invocation produces when run alone with the same
\* arguments and the same answers of the search collaborator
FrameAlone(f) ==
    /\ (f.tool = "find_destination" /\ f.pc = "await_search") =>
          f.search_call[1].filter[1] \in AloneFilters(f.args[1])
    /\ f.pc \in {"iterate", "done"} => f.result = AloneResult(f)
    /\ f.pc = "done" =>
          /\ f.search_results = <<>>
          /\ f.tool_result[1].value = AloneResult(f)

BothAlone == FrameAlone(Frame) /\ (suspended # None => FrameAlone(suspended[1]))

\* A step writes the frame of the other invocation only by suspending the
\* running one, and the invocation resumed gets its frame back as it left it
OwnFrameOnly ==
    suspended' # suspended =>
        /\ suspended' = Some(Frame)
        /\ suspended # None => Frame' = suspended[1]

\* C15: with two invocations interleaved at their awaits, the filter and the
\* result of each are those it produces alone with the same arguments and
\* collaborator answers; no step touches the frame of the other invocation,
\* and the tool registry stays as attach_rag_tools left it.
C15_InterleavedInvocationsIsolated ==
    /\ []BothAlone
    /\ [][OwnFrameOnly /\ tools' = tools /\ tools = attach_rag_tools]_vars

C15_Witness ==
    /\ suspended # None
    /\ suspended[1].tool = "find_destination" /\ tool = "search"
    /\ suspended[1].pc = "iterate" /\ pc = "iterate"
    /\ suspended[1].result # <<>> /\ suspended[1].search_results # <<>>
    /\ result # <<>> /\ search_results # <<>>

====
